---------------------------- MODULE Spec2Model ----------------------------
(***************************************************************************)
(* rpmsg_netif: a virtual Ethernet link over rpmsg.                        *)
(*                                                                         *)
(* Spec        the transmit path of the Linux driver                       *)
(*             (src/linux/rpmsg_eth.c): rpmsg_eth_xmit, the immediate and  *)
(*             the delayed work item, rpmsg_eth_open / rpmsg_eth_stop and  *)
(*             rpmsg_eth_remove, each split at the points where another    *)
(*             context can interleave.                                     *)
(*                                                                         *)
(* SpecLink    bring-up and the receive callbacks of both link ends:       *)
(*             rpmsg_eth_probe and rpmsg_eth_rx_cb of the Linux driver,    *)
(*             rpmsg_eth_init and rpmsg_endpoint_cb of the companion side  *)
(*             (src/freertos/rpmsg_eth.c).                                 *)
(*                                                                         *)
(* Program positions are named after the source line that is executed      *)
(* next, e.g. xm_pc = "L80" means rpmsg_eth_xmit is about to execute line  *)
(* 80 of src/linux/rpmsg_eth.c.                                            *)
(***************************************************************************)
EXTENDS Naturals, Sequences, FiniteSets

\* Number of frames the host stack hands to rpmsg_eth_xmit in one run.
MaxFrames == 2
\* Frame lengths are drawn from 1..MaxLen.
MaxLen == 2

\* Inbound messages delivered to each receive callback in one run.
MaxRx == 2

\* #define RPMSG_SIZE 496 and MTU_RPMSG (RPMSG_SIZE - 6 - 6 - 2), both files
RPMSG_SIZE == 496
MTU_RPMSG == RPMSG_SIZE - 6 - 6 - 2

Frames == 1..MaxFrames
Lens == 1..MaxLen
\* priv->skb == NULL
NULL == 0

\* Results of rpmsg_trysend: 0, -ENOMEM (ring full) or another error.
TrysendResults == {"ok", "wouldblock", "error"}

\* Non-zero return values of rpmsg_send and register_netdev.
ErrCodes == {"-ENOMEM", "-EINVAL"}

\* htons(ethhdr->type) of an inbound message on the companion side.
EthTypes == {"ETHTYPE_IP", "ETHTYPE_ARP", "other"}
Pbufs == 1..MaxRx

VARIABLES
    \* ---- host network stack (environment of the driver)
    registered,     \* the net device is registered (register/unregister_netdev)
    up,             \* the interface is up (between ndo_open and ndo_stop)
    queue_stopped,  \* the transmit queue's XOFF bit (netif_stop/start/wake_queue)
    \* ---- struct rpmsg_eth_private
    skb,            \* priv->skb: the frame in the slot, NULL if none
    is_delayed,     \* priv->is_delayed
    is_shutdown,    \* priv->is_shutdown
    shutdown_lock,  \* priv->shutdown_lock: the context holding it, or "none"
    imm_pending,    \* priv->immediate is queued (pending bit of the work item)
    dl_pending,     \* priv->delayed is queued (its timer is armed)
    tx_packets,     \* priv->stats.tx_packets
    tx_bytes,       \* priv->stats.tx_bytes
    \* ---- positions and locals of the four contexts
    xm_pc, xm_skb,  \* rpmsg_eth_xmit and its parameter skb
    xm_len,         \* skb->len of that frame
    wk_pc, wk_err,  \* net_xmit_work_handler and its local err ("ok" outside a run)
    dl_pc,          \* net_xmit_delayed_work_handler
    rm_pc,          \* rpmsg_eth_remove
    \* ---- history of each frame (observation only, never read by the code)
    nframes,        \* frames handed to rpmsg_eth_xmit so far
    rel,            \* rel[f]: the dev_consume_skb_any events of frame f, by path
    att,            \* att[f]: the results of the rpmsg_trysend calls made with frame f
    retr,           \* retr[f]: delayed retries scheduled after a failed send of f
    woke,           \* frames whose handler run went on to netif_wake_queue
    wk_frame,       \* the frame the running handler passed to rpmsg_trysend, if any
    \* ---- Linux bring-up and receive path
    pb_pc, pb_ret,  \* rpmsg_eth_probe and its return value
    netdev,         \* the net device: "none", "allocated", "registered", "freed"
    netdev_mtu,     \* netdev->mtu
    oops,           \* a NULL pointer was dereferenced in the kernel
    rx_pc, rx_skb, rx_len,  \* rpmsg_eth_rx_cb: position, its skb, its len
    rx_packets,     \* priv->stats.rx_packets
    rx_bytes,       \* priv->stats.rx_bytes
    rx_delivered,   \* frames passed to netif_rx
    rx_calls,       \* calls of rpmsg_eth_rx_cb so far
    \* ---- companion side (lwIP interface)
    in_pc, in_ret,  \* rpmsg_eth_init and its return value
    mailboxif,      \* the private block: "none", "allocated", "freed"
    netif_mtu,      \* netif->mtu
    ept,            \* the endpoint was created
    cb_pc, cb_p, cb_type, cb_ret,  \* rpmsg_endpoint_cb: position, p, type, result
    pbuf,           \* pbuf[b]: "free", "held" (by the callback), "stack", "released"
    pbuf_frees,     \* pbuf_frees[b]: pbuf_free calls on buffer b
    cb_calls        \* calls of rpmsg_endpoint_cb so far

envvars == <<registered, up, queue_stopped>>
privvars == <<skb, is_delayed, is_shutdown, shutdown_lock, imm_pending,
              dl_pending, tx_packets, tx_bytes>>
pcvars == <<xm_pc, xm_skb, xm_len, wk_pc, wk_err, dl_pc, rm_pc>>
histvars == <<nframes, rel, att, retr, woke, wk_frame>>
txvars == <<envvars, privvars, pcvars, histvars>>
lnxvars == <<pb_pc, pb_ret, netdev, netdev_mtu, oops, rx_pc, rx_skb, rx_len,
             rx_packets, rx_bytes, rx_delivered, rx_calls>>
cmpvars == <<in_pc, in_ret, mailboxif, netif_mtu, ept, cb_pc, cb_p, cb_type,
             cb_ret, pbuf, pbuf_frees, cb_calls>>
linkvars == <<lnxvars, cmpvars>>
vars == <<txvars, linkvars>>

---------------------------------------------------------------------------
\* struct rpmsg_eth_private as rpmsg_eth_probe leaves it (lines 250-255), no
\* context running, no frame seen yet.
TxInit ==
    /\ up = FALSE
    /\ queue_stopped = FALSE
    /\ skb = NULL
    /\ is_delayed = FALSE
    /\ is_shutdown = FALSE
    /\ shutdown_lock = "none"
    /\ imm_pending = FALSE
    /\ dl_pending = FALSE
    /\ tx_packets = 0
    /\ tx_bytes = 0
    /\ xm_pc = "idle" /\ xm_skb = NULL /\ xm_len = 0
    /\ wk_pc = "idle" /\ wk_err = "ok"
    /\ dl_pc = "idle"
    /\ rm_pc = "idle"
    /\ nframes = 0
    /\ rel = [f \in Frames |-> <<>>]
    /\ att = [f \in Frames |-> <<>>]
    /\ retr = [f \in Frames |-> 0]
    /\ woke = {}
    /\ wk_frame = NULL

\* No inbound message seen yet on the Linux side.
RxInit ==
    /\ oops = FALSE
    /\ rx_pc = "idle" /\ rx_skb = "none" /\ rx_len = 0
    /\ rx_packets = 0
    /\ rx_bytes = 0
    /\ rx_delivered = 0
    /\ rx_calls = 0

\* The companion side before netif_add calls rpmsg_eth_init.
CompanionInit ==
    /\ in_pc = "L55" /\ in_ret = "none"
    /\ mailboxif = "none"
    /\ netif_mtu = 0
    /\ ept = FALSE
    /\ cb_pc = "idle" /\ cb_p = NULL /\ cb_type = "none" /\ cb_ret = "none"
    /\ pbuf = [b \in Pbufs |-> "free"]
    /\ pbuf_frees = [b \in Pbufs |-> 0]
    /\ cb_calls = 0

\* Transmit path: the state after a successful rpmsg_eth_probe.
Init ==
    /\ TxInit
    /\ registered = TRUE
    /\ pb_pc = "done" /\ pb_ret = "0"
    /\ netdev = "registered"
    /\ netdev_mtu = MTU_RPMSG
    /\ RxInit
    /\ CompanionInit

\* Bring-up: the state when the rpmsg bus calls rpmsg_eth_probe.
LinkInit ==
    /\ TxInit
    /\ registered = FALSE
    /\ pb_pc = "L235" /\ pb_ret = "none"
    /\ netdev = "none"
    /\ netdev_mtu = 0
    /\ RxInit
    /\ CompanionInit

---------------------------------------------------------------------------
\* Kernel primitives used by the driver.

\* dev_consume_skb_any(f) on path p: one release event of frame f.
Consume(f, p) == rel' = [rel EXCEPT ![f] = Append(@, p)]

\* spin_lock_irqsave can be taken when nobody holds the lock.
LockFree == shutdown_lock = "none"

---------------------------------------------------------------------------
\* rpmsg_eth_open / rpmsg_eth_stop: called by the stack, open on a device
\* that is down, stop on a device that is up once no transmit call is running.

rpmsg_eth_open ==
    /\ registered /\ ~up
    /\ up' = TRUE
    /\ queue_stopped' = FALSE
    /\ UNCHANGED <<linkvars, registered, privvars, pcvars, histvars>>

rpmsg_eth_stop ==
    /\ registered /\ up /\ xm_pc = "idle"
    /\ up' = FALSE
    /\ queue_stopped' = TRUE
    /\ UNCHANGED <<linkvars, registered, privvars, pcvars, histvars>>

---------------------------------------------------------------------------
\* rpmsg_eth_xmit (lines 68-95).  The stack calls ndo_start_xmit, one call
\* at a time, only on a device that is up and whose queue is not stopped.

xmit_call ==
    /\ registered /\ up /\ ~queue_stopped
    /\ xm_pc = "idle"
    /\ nframes < MaxFrames
    /\ \E n \in Lens : xm_len' = n
    /\ nframes' = nframes + 1
    /\ xm_skb' = nframes + 1
    /\ xm_pc' = "L75"
    /\ UNCHANGED <<linkvars, envvars, privvars, wk_pc, wk_err, dl_pc, rm_pc,
                   rel, att, retr, woke, wk_frame>>

\* line 75: netif_stop_queue
xmit_stop_queue ==
    /\ xm_pc = "L75"
    /\ queue_stopped' = TRUE
    /\ xm_pc' = "L78"
    /\ UNCHANGED <<linkvars, registered, up, privvars, xm_skb, xm_len, wk_pc, wk_err, dl_pc,
                   rm_pc, histvars>>

\* rpmsg_eth_xmit without the test of is_shutdown: the frame is always stored.
xmit_lock_ignores_shutdown ==
    /\ xm_pc = "L78"
    /\ LockFree
    /\ shutdown_lock' = "xmit"
    /\ xm_pc' = "L80"
    /\ UNCHANGED <<linkvars, envvars, skb, is_delayed, is_shutdown,
                   imm_pending, dl_pending, tx_packets, tx_bytes, xm_skb,
                   xm_len, wk_pc, wk_err, dl_pc, rm_pc, histvars>>

\* lines 78-79: take the lock and test is_shutdown
xmit_lock ==
    /\ xm_pc = "L78"
    /\ LockFree
    /\ shutdown_lock' = "xmit"
    /\ xm_pc' = IF ~is_shutdown THEN "L80" ELSE "L85"
    /\ UNCHANGED <<linkvars, envvars, skb, is_delayed, is_shutdown, imm_pending,
                   dl_pending, tx_packets, tx_bytes, xm_skb, xm_len, wk_pc, wk_err,
                   dl_pc, rm_pc, histvars>>

\* line 80: priv->skb = skb
xmit_store ==
    /\ xm_pc = "L80"
    /\ skb' = xm_skb
    /\ xm_pc' = "L81"
    /\ UNCHANGED <<linkvars, envvars, is_delayed, is_shutdown, shutdown_lock,
                   imm_pending, dl_pending, tx_packets, tx_bytes, xm_skb, xm_len,
                   wk_pc, wk_err, dl_pc, rm_pc, histvars>>

\* lines 81-82: schedule_work(&priv->immediate); unlock
xmit_schedule ==
    /\ xm_pc = "L81"
    /\ imm_pending' = TRUE
    /\ shutdown_lock' = "none"
    /\ xm_pc' = "L91"
    /\ UNCHANGED <<linkvars, envvars, skb, is_delayed, is_shutdown, dl_pending,
                   tx_packets, tx_bytes, xm_skb, xm_len, wk_pc, wk_err, dl_pc, rm_pc,
                   histvars>>

\* line 85: unlock on the shutdown branch
xmit_unlock_shutdown ==
    /\ xm_pc = "L85"
    /\ shutdown_lock' = "none"
    /\ xm_pc' = "L87"
    /\ UNCHANGED <<linkvars, envvars, skb, is_delayed, is_shutdown, imm_pending,
                   dl_pending, tx_packets, tx_bytes, xm_skb, xm_len, wk_pc, wk_err,
                   dl_pc, rm_pc, histvars>>

\* line 87: dev_consume_skb_any(skb): the frame is dropped
xmit_drop ==
    /\ xm_pc = "L87"
    /\ Consume(xm_skb, "xmit_drop")
    /\ xm_pc' = "L91"
    /\ UNCHANGED <<linkvars, envvars, privvars, xm_skb, xm_len, wk_pc, wk_err, dl_pc, rm_pc,
                   nframes, att, retr, woke, wk_frame>>

\* The value line 92 reads from skb->len: the frame's length while the frame
\* is alive, any value once the frame has been released.
SkbLenRead(f) == IF rel[f] = <<>> THEN {xm_len} ELSE Lens

\* lines 91-94: tx_packets++; tx_bytes += skb->len; return NETDEV_TX_OK
xmit_stats ==
    /\ xm_pc = "L91"
    /\ tx_packets' = tx_packets + 1
    /\ \E n \in SkbLenRead(xm_skb) : tx_bytes' = tx_bytes + n
    /\ xm_pc' = "idle"
    /\ xm_skb' = NULL
    /\ xm_len' = 0
    /\ UNCHANGED <<linkvars, envvars, skb, is_delayed, is_shutdown, shutdown_lock,
                   imm_pending, dl_pending, wk_pc, wk_err, dl_pc, rm_pc,
                   histvars>>

---------------------------------------------------------------------------
\* net_xmit_work_handler (lines 113-173), the immediate work item.  The
\* workqueue runs a queued item once, and never two runs of it at a time.

work_start ==
    /\ imm_pending
    /\ wk_pc = "idle"
    /\ imm_pending' = FALSE
    /\ wk_pc' = "L119"
    /\ wk_err' = "ok"
    /\ wk_frame' = NULL
    /\ UNCHANGED <<linkvars, envvars, skb, is_delayed, is_shutdown, shutdown_lock,
                   dl_pending, tx_packets, tx_bytes, xm_pc, xm_skb, xm_len, dl_pc,
                   rm_pc, nframes, rel, att, retr, woke>>

\* lines 119-122: if (priv->skb == NULL) goto cleanup
work_check_null ==
    /\ wk_pc = "L119"
    /\ wk_pc' = IF skb = NULL THEN "L160" ELSE "L124"
    /\ UNCHANGED <<linkvars, envvars, privvars, xm_pc, xm_skb, xm_len, wk_err, dl_pc, rm_pc,
                   histvars>>

\* line 124: err = rpmsg_trysend(ept, priv->skb->data, priv->skb->len)
work_trysend ==
    /\ wk_pc = "L124"
    /\ skb # NULL
    /\ \E r \in TrysendResults :
          /\ wk_err' = r
          /\ att' = [att EXCEPT ![skb] = Append(@, r)]
    /\ wk_frame' = skb
    /\ wk_pc' = "L125"
    /\ UNCHANGED <<linkvars, envvars, privvars, xm_pc, xm_skb, xm_len, dl_pc, rm_pc, nframes,
                   rel, retr, woke>>

\* lines 125-132: if (err) { if (priv->is_delayed) goto cleanup; else ... }
work_check_err ==
    /\ wk_pc = "L125"
    /\ wk_pc' = IF wk_err = "ok" THEN "L160"
                ELSE IF is_delayed THEN "L160"
                ELSE "L134"
    /\ UNCHANGED <<linkvars, envvars, privvars, xm_pc, xm_skb, xm_len, wk_err, dl_pc, rm_pc,
                   histvars>>

\* net_xmit_work_handler without the test of is_shutdown at line 135: the
\* retry is always scheduled.
work_retry_lock_ignores_shutdown ==
    /\ wk_pc = "L134"
    /\ LockFree
    /\ shutdown_lock' = "work"
    /\ wk_pc' = "L136"
    /\ UNCHANGED <<linkvars, envvars, skb, is_delayed, is_shutdown,
                   imm_pending, dl_pending, tx_packets, tx_bytes, xm_pc,
                   xm_skb, xm_len, wk_err, dl_pc, rm_pc, histvars>>

\* lines 134-135: first attempt failed: take the lock and test is_shutdown
work_retry_lock ==
    /\ wk_pc = "L134"
    /\ LockFree
    /\ shutdown_lock' = "work"
    /\ wk_pc' = IF ~is_shutdown THEN "L136" ELSE "L147"
    /\ UNCHANGED <<linkvars, envvars, skb, is_delayed, is_shutdown, imm_pending,
                   dl_pending, tx_packets, tx_bytes, xm_pc, xm_skb, xm_len, wk_err,
                   dl_pc, rm_pc, histvars>>

\* lines 136-154: is_delayed = true; schedule_delayed_work; unlock; return
work_schedule_retry ==
    /\ wk_pc = "L136"
    /\ is_delayed' = TRUE
    /\ dl_pending' = TRUE
    /\ retr' = [retr EXCEPT ![wk_frame] = @ + 1]
    /\ shutdown_lock' = "none"
    /\ wk_pc' = "idle"
    /\ wk_err' = "ok"
    /\ wk_frame' = NULL
    /\ UNCHANGED <<linkvars, envvars, skb, is_shutdown, imm_pending, tx_packets,
                   tx_bytes, xm_pc, xm_skb, xm_len, dl_pc, rm_pc, nframes,
                   rel, att, woke>>

\* lines 147-154: shut down: unlock and return, the frame stays in the slot
work_skip_retry ==
    /\ wk_pc = "L147"
    /\ shutdown_lock' = "none"
    /\ wk_pc' = "idle"
    /\ wk_err' = "ok"
    /\ wk_frame' = NULL
    /\ UNCHANGED <<linkvars, envvars, skb, is_delayed, is_shutdown, imm_pending,
                   dl_pending, tx_packets, tx_bytes, xm_pc, xm_skb, xm_len,
                   dl_pc, rm_pc, nframes, rel, att, retr, woke>>

\* line 160: cleanup: if (priv->skb != NULL)
work_cleanup_test ==
    /\ wk_pc = "L160"
    /\ wk_pc' = IF skb # NULL THEN "L161" ELSE "L165"
    /\ UNCHANGED <<linkvars, envvars, privvars, xm_pc, xm_skb, xm_len, wk_err, dl_pc, rm_pc,
                   histvars>>

\* The path by which the handler's cleanup releases a frame.
CleanupPath == IF wk_frame = NULL THEN "unsent"
               ELSE IF wk_err = "ok" THEN "success"
               ELSE "drop"

\* line 161: dev_consume_skb_any(priv->skb)
work_consume ==
    /\ wk_pc = "L161"
    /\ skb # NULL
    /\ Consume(skb, CleanupPath)
    /\ wk_pc' = "L162"
    /\ UNCHANGED <<linkvars, envvars, privvars, xm_pc, xm_skb, xm_len, wk_err, dl_pc, rm_pc,
                   nframes, att, retr, woke, wk_frame>>

\* line 162: priv->skb = NULL
work_clear_skb ==
    /\ wk_pc = "L162"
    /\ skb' = NULL
    /\ wk_pc' = "L165"
    /\ UNCHANGED <<linkvars, envvars, is_delayed, is_shutdown, shutdown_lock,
                   imm_pending, dl_pending, tx_packets, tx_bytes, xm_pc,
                   xm_skb, xm_len, wk_err, dl_pc, rm_pc, histvars>>

\* line 165: priv->is_delayed = false
work_clear_delayed ==
    /\ wk_pc = "L165"
    /\ is_delayed' = FALSE
    /\ wk_pc' = "L168"
    /\ UNCHANGED <<linkvars, envvars, skb, is_shutdown, shutdown_lock, imm_pending,
                   dl_pending, tx_packets, tx_bytes, xm_pc, xm_skb, xm_len, wk_err,
                   dl_pc, rm_pc, histvars>>

\* net_xmit_work_handler without the test of is_shutdown at line 169: the
\* queue is always woken.
work_wake_lock_ignores_shutdown ==
    /\ wk_pc = "L168"
    /\ LockFree
    /\ shutdown_lock' = "work"
    /\ wk_pc' = "L170"
    /\ UNCHANGED <<linkvars, envvars, skb, is_delayed, is_shutdown,
                   imm_pending, dl_pending, tx_packets, tx_bytes, xm_pc,
                   xm_skb, xm_len, wk_err, dl_pc, rm_pc, histvars>>

\* lines 168-169: take the lock and test is_shutdown
work_wake_lock ==
    /\ wk_pc = "L168"
    /\ LockFree
    /\ shutdown_lock' = "work"
    /\ wk_pc' = IF ~is_shutdown THEN "L170" ELSE "L172"
    /\ UNCHANGED <<linkvars, envvars, skb, is_delayed, is_shutdown, imm_pending,
                   dl_pending, tx_packets, tx_bytes, xm_pc, xm_skb, xm_len, wk_err,
                   dl_pc, rm_pc, histvars>>

\* lines 170-172: netif_wake_queue; unlock
work_wake ==
    /\ wk_pc = "L170"
    /\ queue_stopped' = FALSE
    /\ woke' = IF wk_frame = NULL THEN woke ELSE woke \cup {wk_frame}
    /\ shutdown_lock' = "none"
    /\ wk_pc' = "idle"
    /\ wk_err' = "ok"
    /\ wk_frame' = NULL
    /\ UNCHANGED <<linkvars, registered, up, skb, is_delayed, is_shutdown, imm_pending,
                   dl_pending, tx_packets, tx_bytes, xm_pc, xm_skb, xm_len,
                   dl_pc, rm_pc, nframes, rel, att, retr>>

\* line 172: shut down: unlock without waking the queue
work_no_wake ==
    /\ wk_pc = "L172"
    /\ shutdown_lock' = "none"
    /\ wk_pc' = "idle"
    /\ wk_err' = "ok"
    /\ wk_frame' = NULL
    /\ UNCHANGED <<linkvars, envvars, skb, is_delayed, is_shutdown, imm_pending,
                   dl_pending, tx_packets, tx_bytes, xm_pc, xm_skb, xm_len,
                   dl_pc, rm_pc, nframes, rel, att, retr, woke>>

---------------------------------------------------------------------------
\* net_xmit_delayed_work_handler (lines 97-111), run when the timer of the
\* delayed work item expires.

delayed_start ==
    /\ dl_pending
    /\ dl_pc = "idle"
    /\ dl_pending' = FALSE
    /\ dl_pc' = "L102"
    /\ UNCHANGED <<linkvars, envvars, skb, is_delayed, is_shutdown, shutdown_lock,
                   imm_pending, tx_packets, tx_bytes, xm_pc, xm_skb, xm_len, wk_pc,
                   wk_err, rm_pc, histvars>>

\* net_xmit_delayed_work_handler that never re-queues the immediate item.
delayed_lock_never_kicks ==
    /\ dl_pc = "L102"
    /\ LockFree
    /\ shutdown_lock' = "delayed"
    /\ dl_pc' = "L107"
    /\ UNCHANGED <<linkvars, envvars, skb, is_delayed, is_shutdown,
                   imm_pending, dl_pending, tx_packets, tx_bytes, xm_pc,
                   xm_skb, xm_len, wk_pc, wk_err, rm_pc, histvars>>

\* lines 102-103: take the lock and test is_delayed && !is_shutdown
delayed_lock ==
    /\ dl_pc = "L102"
    /\ LockFree
    /\ shutdown_lock' = "delayed"
    /\ dl_pc' = IF is_delayed /\ ~is_shutdown THEN "L104" ELSE "L107"
    /\ UNCHANGED <<linkvars, envvars, skb, is_delayed, is_shutdown, imm_pending,
                   dl_pending, tx_packets, tx_bytes, xm_pc, xm_skb, xm_len, wk_pc,
                   wk_err, rm_pc, histvars>>

\* lines 104-105: schedule_work(&priv->immediate); unlock
delayed_kick ==
    /\ dl_pc = "L104"
    /\ imm_pending' = TRUE
    /\ shutdown_lock' = "none"
    /\ dl_pc' = "idle"
    /\ UNCHANGED <<linkvars, envvars, skb, is_delayed, is_shutdown, dl_pending,
                   tx_packets, tx_bytes, xm_pc, xm_skb, xm_len, wk_pc, wk_err, rm_pc,
                   histvars>>

\* lines 107-109: unlock, nothing scheduled
delayed_skip ==
    /\ dl_pc = "L107"
    /\ shutdown_lock' = "none"
    /\ dl_pc' = "idle"
    /\ UNCHANGED <<linkvars, envvars, skb, is_delayed, is_shutdown, imm_pending,
                   dl_pending, tx_packets, tx_bytes, xm_pc, xm_skb, xm_len, wk_pc,
                   wk_err, rm_pc, histvars>>

---------------------------------------------------------------------------
\* rpmsg_eth_remove (lines 278-308), called once on a probed device.

\* lines 284-285: take the lock; is_shutdown = true
remove_lock ==
    /\ rm_pc = "idle"
    /\ registered
    /\ LockFree
    /\ shutdown_lock' = "remove"
    /\ is_shutdown' = TRUE
    /\ rm_pc' = "L286"
    /\ UNCHANGED <<linkvars, envvars, skb, is_delayed, imm_pending, dl_pending,
                   tx_packets, tx_bytes, xm_pc, xm_skb, xm_len, wk_pc, wk_err, dl_pc,
                   histvars>>

\* lines 286-287: netif_stop_queue; unlock
remove_stop_queue ==
    /\ rm_pc = "L286"
    /\ queue_stopped' = TRUE
    /\ shutdown_lock' = "none"
    /\ rm_pc' = "L293"
    /\ UNCHANGED <<linkvars, registered, up, skb, is_delayed, is_shutdown, imm_pending,
                   dl_pending, tx_packets, tx_bytes, xm_pc, xm_skb, xm_len, wk_pc,
                   wk_err, dl_pc, histvars>>

\* line 293: cancel_delayed_work_sync: returns once the delayed item is
\* neither queued nor running
remove_cancel_delayed ==
    /\ rm_pc = "L293"
    /\ dl_pc = "idle"
    /\ dl_pending' = FALSE
    /\ rm_pc' = "L294"
    /\ UNCHANGED <<linkvars, envvars, skb, is_delayed, is_shutdown, shutdown_lock,
                   imm_pending, tx_packets, tx_bytes, xm_pc, xm_skb, xm_len, wk_pc,
                   wk_err, dl_pc, histvars>>

\* cancel_work() in place of cancel_work_sync(): a running handler is not
\* waited for.
remove_cancel_work_nowait ==
    /\ rm_pc = "L294"
    /\ imm_pending' = FALSE
    /\ rm_pc' = "L300"
    /\ UNCHANGED <<linkvars, envvars, skb, is_delayed, is_shutdown,
                   shutdown_lock, dl_pending, tx_packets, tx_bytes, xm_pc,
                   xm_skb, xm_len, wk_pc, wk_err, dl_pc, histvars>>

\* flush_work() in place of cancel_work_sync(): a running handler is waited
\* for, a queued one is left queued.
remove_cancel_work_flush_only ==
    /\ rm_pc = "L294"
    /\ wk_pc = "idle"
    /\ rm_pc' = "L300"
    /\ UNCHANGED <<linkvars, envvars, privvars, xm_pc, xm_skb, xm_len, wk_pc,
                   wk_err, dl_pc, histvars>>

\* line 294: cancel_work_sync: returns once the immediate item is neither
\* queued nor running
remove_cancel_work ==
    /\ rm_pc = "L294"
    /\ wk_pc = "idle"
    /\ imm_pending' = FALSE
    /\ rm_pc' = "L300"
    /\ UNCHANGED <<linkvars, envvars, skb, is_delayed, is_shutdown, shutdown_lock,
                   dl_pending, tx_packets, tx_bytes, xm_pc, xm_skb, xm_len, wk_pc,
                   wk_err, dl_pc, histvars>>

\* line 300: if (priv->skb != NULL)
remove_reclaim_test ==
    /\ rm_pc = "L300"
    /\ rm_pc' = IF skb # NULL THEN "L301" ELSE "L305"
    /\ UNCHANGED <<linkvars, envvars, privvars, xm_pc, xm_skb, xm_len, wk_pc, wk_err, dl_pc,
                   histvars>>

\* line 301: dev_consume_skb_any(priv->skb)
remove_consume ==
    /\ rm_pc = "L301"
    /\ skb # NULL
    /\ Consume(skb, "reclaim")
    /\ rm_pc' = "L302"
    /\ UNCHANGED <<linkvars, envvars, privvars, xm_pc, xm_skb, xm_len, wk_pc, wk_err, dl_pc,
                   nframes, att, retr, woke, wk_frame>>

\* line 302: priv->skb = NULL
remove_clear_skb ==
    /\ rm_pc = "L302"
    /\ skb' = NULL
    /\ rm_pc' = "L305"
    /\ UNCHANGED <<linkvars, envvars, is_delayed, is_shutdown, shutdown_lock,
                   imm_pending, dl_pending, tx_packets, tx_bytes, xm_pc,
                   xm_skb, xm_len, wk_pc, wk_err, dl_pc, histvars>>

\* lines 305-307: unregister_netdev closes the interface (ndo_stop when it is
\* up) after the last transmit call has returned; free_netdev
remove_unregister ==
    /\ rm_pc = "L305"
    /\ xm_pc = "idle"
    /\ registered' = FALSE
    /\ up' = FALSE
    /\ queue_stopped' = (IF up THEN TRUE ELSE queue_stopped)
    /\ rm_pc' = "done"
    /\ UNCHANGED <<linkvars, privvars, xm_pc, xm_skb, xm_len, wk_pc, wk_err, dl_pc, histvars>>

---------------------------------------------------------------------------
Next ==
    \/ rpmsg_eth_open
    \/ rpmsg_eth_stop
    \/ xmit_call
    \/ xmit_stop_queue
    \/ xmit_lock
    \/ xmit_store
    \/ xmit_schedule
    \/ xmit_unlock_shutdown
    \/ xmit_drop
    \/ xmit_stats
    \/ work_start
    \/ work_check_null
    \/ work_trysend
    \/ work_check_err
    \/ work_retry_lock
    \/ work_schedule_retry
    \/ work_skip_retry
    \/ work_cleanup_test
    \/ work_consume
    \/ work_clear_skb
    \/ work_clear_delayed
    \/ work_wake_lock
    \/ work_wake
    \/ work_no_wake
    \/ delayed_start
    \/ delayed_lock
    \/ delayed_kick
    \/ delayed_skip
    \/ remove_lock
    \/ remove_stop_queue
    \/ remove_cancel_delayed
    \/ remove_cancel_work
    \/ remove_reclaim_test
    \/ remove_consume
    \/ remove_clear_skb
    \/ remove_unregister

Spec == Init /\ [][Next]_vars

---------------------------------------------------------------------------
\* The transmit path of a device that is never removed, with the scheduling
\* the kernel guarantees: a call of rpmsg_eth_xmit runs to its return, the
\* workqueue runs a queued work item, the timer of the delayed item expires.
\* When and whether the stack opens, stops or transmits is left open.

\* A step of a running rpmsg_eth_xmit; is_shutdown is never set here, so the
\* shutdown branch (lines 84-88) is not taken.
XmitStep ==
    \/ xmit_stop_queue
    \/ xmit_lock
    \/ xmit_store
    \/ xmit_schedule
    \/ xmit_stats

\* A step of net_xmit_work_handler, from its start by the workqueue on.
WorkStep ==
    \/ work_start
    \/ work_check_null
    \/ work_trysend
    \/ work_check_err
    \/ work_retry_lock
    \/ work_schedule_retry
    \/ work_cleanup_test
    \/ work_consume
    \/ work_clear_skb
    \/ work_clear_delayed
    \/ work_wake_lock
    \/ work_wake

\* A step of net_xmit_delayed_work_handler, from the expiry of its timer on.
DelayedStep ==
    \/ delayed_start
    \/ delayed_lock
    \/ delayed_kick
    \/ delayed_skip

NextLive ==
    \/ rpmsg_eth_open
    \/ rpmsg_eth_stop
    \/ xmit_call
    \/ XmitStep
    \/ WorkStep
    \/ DelayedStep

Fairness == WF_vars(XmitStep) /\ WF_vars(WorkStep) /\ WF_vars(DelayedStep)

SpecLive == Init /\ [][NextLive]_vars /\ Fairness

---------------------------------------------------------------------------
\* rpmsg_eth_probe (src/linux/rpmsg_eth.c, lines 223-276).

\* lines 235-237: alloc_etherdev returns the device or NULL; IS_ERR(NULL) is
\* false, so the function goes on in both cases
probe_alloc ==
    /\ pb_pc = "L235"
    /\ \E r \in {"allocated", "none"} : netdev' = r
    /\ pb_pc' = "L239"
    /\ UNCHANGED <<txvars, cmpvars, pb_ret, netdev_mtu, oops, rx_pc, rx_skb,
                   rx_len, rx_packets, rx_bytes, rx_delivered, rx_calls>>

\* lines 239-257: netdev->netdev_ops, netdev->mtu, ... and the private block
probe_setup ==
    /\ pb_pc = "L239"
    /\ IF netdev = "none"
          THEN /\ oops' = TRUE
               /\ pb_pc' = "oops"
               /\ UNCHANGED netdev_mtu
          ELSE /\ netdev_mtu' = MTU_RPMSG
               /\ pb_pc' = "L261"
               /\ UNCHANGED oops
    /\ UNCHANGED <<txvars, cmpvars, pb_ret, netdev, rx_pc, rx_skb, rx_len,
                   rx_packets, rx_bytes, rx_delivered, rx_calls>>

\* lines 261-267: the first rpmsg_send; on failure free_netdev and return
probe_send ==
    /\ pb_pc = "L261"
    /\ \E retval \in {"0"} \cup ErrCodes :
          IF retval # "0"
             THEN /\ netdev' = "freed"
                  /\ pb_ret' = retval
                  /\ pb_pc' = "done"
             ELSE /\ pb_pc' = "L269"
                  /\ UNCHANGED <<netdev, pb_ret>>
    /\ UNCHANGED <<txvars, cmpvars, netdev_mtu, oops, rx_pc, rx_skb, rx_len,
                   rx_packets, rx_bytes, rx_delivered, rx_calls>>

\* lines 269-275: register_netdev; on failure return retval
probe_register ==
    /\ pb_pc = "L269"
    /\ \E retval \in {"0"} \cup ErrCodes :
          /\ pb_ret' = retval
          /\ IF retval # "0"
                THEN UNCHANGED <<netdev, registered>>
                ELSE /\ netdev' = "registered"
                     /\ registered' = TRUE
    /\ pb_pc' = "done"
    /\ UNCHANGED <<up, queue_stopped, privvars, pcvars, histvars, cmpvars,
                   netdev_mtu, oops, rx_pc, rx_skb, rx_len, rx_packets,
                   rx_bytes, rx_delivered, rx_calls>>

---------------------------------------------------------------------------
\* rpmsg_eth_rx_cb (src/linux/rpmsg_eth.c, lines 194-212), called by the
\* transport for each inbound message of a probed device.

\* line 199: skb = dev_alloc_skb(len + 2), which returns NULL when out of memory
rx_cb_alloc ==
    /\ pb_pc = "done" /\ netdev = "registered" /\ ~oops
    /\ rx_pc = "idle"
    /\ rx_calls < MaxRx
    /\ rx_calls' = rx_calls + 1
    /\ \E n \in Lens : rx_len' = n
    /\ \E r \in {"skb", "NULL"} : rx_skb' = r
    /\ rx_pc' = "L201"
    /\ UNCHANGED <<txvars, cmpvars, pb_pc, pb_ret, netdev, netdev_mtu, oops,
                   rx_packets, rx_bytes, rx_delivered>>

\* lines 201-206: skb_reserve, skb_put, memcpy, skb->dev = ...: all through skb
rx_cb_fill ==
    /\ rx_pc = "L201"
    /\ IF rx_skb = "NULL"
          THEN /\ oops' = TRUE
               /\ rx_pc' = "oops"
          ELSE /\ rx_pc' = "L207"
               /\ UNCHANGED oops
    /\ UNCHANGED <<txvars, cmpvars, pb_pc, pb_ret, netdev, netdev_mtu, rx_skb,
                   rx_len, rx_packets, rx_bytes, rx_delivered, rx_calls>>

\* lines 207-211: rx_packets++; rx_bytes += len; netif_rx(skb); return 0
rx_cb_deliver ==
    /\ rx_pc = "L207"
    /\ rx_packets' = rx_packets + 1
    /\ rx_bytes' = rx_bytes + rx_len
    /\ rx_delivered' = rx_delivered + 1
    /\ rx_pc' = "idle"
    /\ rx_skb' = "none"
    /\ rx_len' = 0
    /\ UNCHANGED <<txvars, cmpvars, pb_pc, pb_ret, netdev, netdev_mtu, oops,
                   rx_calls>>

---------------------------------------------------------------------------
\* rpmsg_eth_init (src/freertos/rpmsg_eth.c, lines 47-102), the init callback
\* that netif_add calls.

\* lines 55-59: mailboxif = mem_malloc(...); NULL: return ERR_MEM
init_malloc ==
    /\ in_pc = "L55"
    /\ \E r \in {"allocated", "none"} :
          /\ mailboxif' = r
          /\ IF r = "none"
                THEN in_ret' = "ERR_MEM" /\ in_pc' = "done"
                ELSE in_pc' = "L66" /\ UNCHANGED in_ret
    /\ UNCHANGED <<txvars, lnxvars, netif_mtu, ept, cb_pc, cb_p, cb_type,
                   cb_ret, pbuf, pbuf_frees, cb_calls>>

\* rpmsg_eth_init taking the whole transport payload as the MTU.
init_setup_payload_mtu ==
    /\ in_pc = "L66"
    /\ netif_mtu' = RPMSG_SIZE
    /\ in_pc' = "L90"
    /\ UNCHANGED <<txvars, lnxvars, in_ret, mailboxif, ept, cb_pc, cb_p,
                   cb_type, cb_ret, pbuf, pbuf_frees, cb_calls>>

\* lines 66-88: netif->state, name, output, linkoutput, mtu, flags, hwaddr
init_setup ==
    /\ in_pc = "L66"
    /\ netif_mtu' = MTU_RPMSG
    /\ in_pc' = "L90"
    /\ UNCHANGED <<txvars, lnxvars, in_ret, mailboxif, ept, cb_pc, cb_p,
                   cb_type, cb_ret, pbuf, pbuf_frees, cb_calls>>

\* lines 90-101: rpmsg_create_ept; non-zero status: return ERR_IF
init_create_ept ==
    /\ in_pc = "L90"
    /\ \E status \in {"0", "error"} :
          IF status # "0"
             THEN /\ in_ret' = "ERR_IF"
                  /\ UNCHANGED ept
             ELSE /\ ept' = TRUE
                  /\ in_ret' = "ERR_OK"
    /\ in_pc' = "done"
    /\ UNCHANGED <<txvars, lnxvars, mailboxif, netif_mtu, cb_pc, cb_p,
                   cb_type, cb_ret, pbuf, pbuf_frees, cb_calls>>

---------------------------------------------------------------------------
\* rpmsg_endpoint_cb (src/freertos/rpmsg_eth.c, lines 104-144), called by the
\* transport for each inbound message once the endpoint exists.

\* pbuf_free(b)
PbufFree(b) ==
    /\ pbuf' = [pbuf EXCEPT ![b] = "released"]
    /\ pbuf_frees' = [pbuf_frees EXCEPT ![b] = @ + 1]

\* lines 112-115: p = pbuf_alloc(...); NULL: return ERR_MEM
endpoint_cb_alloc ==
    /\ ept
    /\ cb_pc = "idle"
    /\ cb_calls < MaxRx
    /\ cb_calls' = cb_calls + 1
    /\ \E t \in EthTypes, r \in {"pbuf", "NULL"} :
          IF r = "NULL"
             THEN /\ cb_ret' = "ERR_MEM"
                  /\ UNCHANGED <<cb_pc, cb_p, cb_type, pbuf>>
             ELSE /\ cb_p' = cb_calls + 1
                  /\ pbuf' = [pbuf EXCEPT ![cb_calls + 1] = "held"]
                  /\ cb_type' = t
                  /\ cb_ret' = "none"
                  /\ cb_pc' = "L117"
    /\ UNCHANGED <<txvars, lnxvars, in_pc, in_ret, mailboxif, netif_mtu, ept,
                   pbuf_frees>>

\* lines 117-129: pbuf_take; switch (htons(ethhdr->type))
endpoint_cb_classify ==
    /\ cb_pc = "L117"
    /\ cb_pc' = IF cb_type \in {"ETHTYPE_IP", "ETHTYPE_ARP"} THEN "L131"
                ELSE "L138"
    /\ UNCHANGED <<txvars, lnxvars, in_pc, in_ret, mailboxif, netif_mtu, ept,
                   cb_p, cb_type, cb_ret, pbuf, pbuf_frees, cb_calls>>

\* lines 131-143: netif->input(p, netif); on failure pbuf_free(p); return
endpoint_cb_input ==
    /\ cb_pc = "L131"
    /\ \E err \in {"ERR_OK", "ERR_MEM"} :
          IF err # "ERR_OK"
             THEN PbufFree(cb_p)
             ELSE /\ pbuf' = [pbuf EXCEPT ![cb_p] = "stack"]
                  /\ UNCHANGED pbuf_frees
    /\ cb_ret' = "RPMSG_SUCCESS"
    /\ cb_pc' = "idle"
    /\ cb_p' = NULL
    /\ cb_type' = "none"
    /\ UNCHANGED <<txvars, lnxvars, in_pc, in_ret, mailboxif, netif_mtu, ept,
                   cb_calls>>

\* rpmsg_endpoint_cb whose default branch returns without pbuf_free(p).
endpoint_cb_discard_no_free ==
    /\ cb_pc = "L138"
    /\ cb_ret' = "RPMSG_SUCCESS"
    /\ cb_pc' = "idle"
    /\ cb_p' = NULL
    /\ cb_type' = "none"
    /\ UNCHANGED <<txvars, lnxvars, in_pc, in_ret, mailboxif, netif_mtu, ept,
                   pbuf, pbuf_frees, cb_calls>>

\* lines 137-143: default: pbuf_free(p); return RPMSG_SUCCESS
endpoint_cb_discard ==
    /\ cb_pc = "L138"
    /\ PbufFree(cb_p)
    /\ cb_ret' = "RPMSG_SUCCESS"
    /\ cb_pc' = "idle"
    /\ cb_p' = NULL
    /\ cb_type' = "none"
    /\ UNCHANGED <<txvars, lnxvars, in_pc, in_ret, mailboxif, netif_mtu, ept,
                   cb_calls>>

---------------------------------------------------------------------------
LinkNext ==
    \/ probe_alloc
    \/ probe_setup
    \/ probe_send
    \/ probe_register
    \/ rx_cb_alloc
    \/ rx_cb_fill
    \/ rx_cb_deliver
    \/ init_malloc
    \/ init_setup
    \/ init_create_ept
    \/ endpoint_cb_alloc
    \/ endpoint_cb_classify
    \/ endpoint_cb_input
    \/ endpoint_cb_discard

SpecLink == LinkInit /\ [][LinkNext]_vars

---------------------------------------------------------------------------
\* Properties of the transmit path (checked under Spec).

Failed(r) == r # "ok"

\* The handler run that passed frame f to rpmsg_trysend has returned.
RunOver(f) == att[f] # <<>> /\ wk_frame # f

\* rpmsg_eth_remove is past cancel_delayed_work_sync and cancel_work_sync.
AfterCancel == {"L300", "L301", "L302", "L305", "done"}

\* rpmsg_eth_remove is past its reclaim of the slot.
AfterReclaim == {"L305", "done"}

\* C1: no frame is released (dev_consume_skb_any) more than once, in any
\* interleaving of the transmit call, the two work handlers and removal.
C1_ReleasedAtMostOnce == \A f \in Frames : Len(rel[f]) <= 1

\* C1 witness: removal has run to its end; one frame was released by the
\* handler, another one had its retry pending when removal came and was
\* released by the reclaim of rpmsg_eth_remove.
C1_Witness ==
    /\ rm_pc = "done"
    /\ \E f, g \in Frames :
          /\ rel[f] \in {<<"success">>, <<"drop">>}
          /\ retr[g] = 1
          /\ rel[g] = <<"reclaim">>

\* C2: every frame passed to rpmsg_eth_xmit is released: once removal has
\* run to its end no frame is left that was never released.
C2_EveryFrameReleased ==
    rm_pc = "done" => \A f \in 1..nframes : rel[f] # <<>>

\* C3: once rpmsg_eth_remove is past its reclaim, the slot is empty and stays
\* empty, whatever a racing or later transmit call does.
C3_SlotEmptyAfterRemove == rm_pc \in AfterReclaim => skb = NULL

\* C3 witness: the reclaim released a frame and a transmit call that came
\* after it is on the shutdown branch, about to drop its frame.
C3_Witness ==
    /\ rm_pc = "L305"
    /\ xm_pc = "L87"
    /\ skb = NULL
    /\ \E f \in Frames : rel[f] = <<"reclaim">>

\* C4: after cancel_delayed_work_sync and cancel_work_sync have returned, no
\* step is a call of rpmsg_trysend.
C4_NoTrysendAfterCancel == [][(rm_pc \in AfterCancel) => (att' = att)]_vars

\* C4 witness: removal has run to its end after cancelling a pending retry:
\* the frame was tried once, a retry was scheduled, and the reclaim released it.
C4_Witness ==
    /\ rm_pc = "done"
    /\ \E f \in Frames :
          /\ Len(att[f]) = 1 /\ Failed(att[f][1])
          /\ retr[f] = 1
          /\ rel[f] = <<"reclaim">>

\* C5: rpmsg_trysend is called at most twice per frame and at most one
\* delayed retry is scheduled per frame; a frame whose first and retried
\* attempt both failed has been dropped by the handler.
C5_AtMostOneRetry ==
    \A f \in Frames :
       /\ Len(att[f]) <= 2
       /\ retr[f] <= 1
       /\ (/\ Len(att[f]) = 2 /\ Failed(att[f][1]) /\ Failed(att[f][2])
           /\ retr[f] = 1 /\ RunOver(f))
          => rel[f] = <<"drop">>

\* C6: a frame whose first rpmsg_trysend succeeded is released by that
\* handler run, the slot is empty from line 162 to the handler's return, no
\* retry is scheduled for it, and the queue is woken unless shutdown began.
C6_FirstSendSucceeds ==
    /\ \A f \in Frames :
          (att[f] = <<"ok">> /\ RunOver(f))
          => /\ rel[f] = <<"success">>
             /\ retr[f] = 0
             /\ (f \in woke \/ is_shutdown)
    /\ wk_pc \in {"L165", "L168", "L170", "L172"} => skb = NULL

\* C7: a frame whose first rpmsg_trysend failed before shutdown gets exactly
\* one delayed retry and stays in the slot meanwhile; if the retried send
\* succeeds the frame is released once, by the success path, and the queue
\* is woken unless shutdown began.
C7_RetryThenSuccess ==
    \A f \in Frames :
       /\ (att[f] # <<>> /\ Failed(att[f][1]) /\ RunOver(f))
          => (retr[f] = 1 \/ is_shutdown)
       /\ (Len(att[f]) = 1 /\ retr[f] = 1 /\ ~is_shutdown) => skb = f
       /\ (Len(att[f]) = 2 /\ att[f][2] = "ok" /\ retr[f] = 1 /\ RunOver(f))
          => /\ rel[f] = <<"success">>
             /\ (f \in woke \/ is_shutdown)

\* C8: while a frame is in the slot the transmit queue is stopped, and
\* rpmsg_eth_xmit stores a frame only into an empty slot.
C8_SlotHeldQueueStopped ==
    /\ skb # NULL => queue_stopped
    /\ xm_pc = "L80" => skb = NULL

---------------------------------------------------------------------------
\* Properties of bring-up and of the receive callbacks (checked under SpecLink).

\* C9: a bring-up that fails after allocating returns the error with the
\* allocation released: rpmsg_eth_probe with the net device freed,
\* rpmsg_eth_init (ERR_IF) with the private block freed.
C9_FailedBringupReleases ==
    /\ (pb_pc = "done" /\ pb_ret # "0") => netdev \in {"none", "freed"}
    /\ (in_pc = "done" /\ in_ret = "ERR_IF") => mailboxif \in {"none", "freed"}

\* C10: a receive callback whose buffer allocation failed drops the message
\* and does nothing else: the NULL buffer is never dereferenced, nothing is
\* counted or handed to the stack for it.
C10_AllocFailureDropsMessage ==
    /\ rx_pc # "oops"
    /\ rx_skb = "NULL" => rx_pc = "L201"
    /\ rx_packets = rx_delivered
    /\ (cb_ret = "ERR_MEM" /\ cb_pc = "idle") => pbuf[cb_calls] = "free"

---------------------------------------------------------------------------
\* Further properties of the transmit path (checked under Spec).

\* rpmsg_eth_xmit executes lines 91-94 and returns.
XmitReturns == xm_pc = "L91" /\ xm_pc' = "idle"

\* C11: every call of rpmsg_eth_xmit adds exactly 1 to tx_packets and the
\* length of its frame to tx_bytes, on the accept path and on the
\* shutdown-drop path alike, and no step decreases either counter.
C11_StatsCountedAtAccept ==
    [][/\ tx_packets' >= tx_packets
       /\ tx_bytes' >= tx_bytes
       /\ XmitReturns => /\ tx_packets' = tx_packets + 1
                          /\ tx_bytes' = tx_bytes + xm_len]_vars

\* rpmsg_eth_remove has set is_shutdown and released the lock (line 287).
ShutdownPublished == rm_pc \notin {"idle", "L286"}

\* A step that executes schedule_work (lines 81, 104) or
\* schedule_delayed_work (line 142).
SchedulesWork == xmit_schedule \/ delayed_kick \/ work_schedule_retry

\* C13: once rpmsg_eth_remove has set is_shutdown and released the lock, no
\* step of rpmsg_eth_xmit or of the two handlers schedules the immediate or
\* the delayed work item, and when removal is past its two cancel calls
\* neither item is queued or running.
C13_NoNewWorkAfterShutdown ==
    [][/\ ShutdownPublished => ~SchedulesWork
       /\ rm_pc' \in AfterCancel =>
             /\ ~imm_pending' /\ ~dl_pending'
             /\ wk_pc' = "idle" /\ dl_pc' = "idle"]_vars

\* C13 witness: removal is past its cancel calls with a frame in the slot
\* whose first send failed after the flag was set: no retry was scheduled
\* for it and nothing is queued.
C13_Witness ==
    /\ rm_pc = "L300"
    /\ skb # NULL
    /\ Len(att[skb]) = 1 /\ Failed(att[skb][1])
    /\ retr[skb] = 0
    /\ ~imm_pending /\ ~dl_pending

\* C14: every change of the slot priv->skb (the store at line 80, the
\* handler's retirement at line 162, the reclaim at line 302) is made by a
\* context that holds shutdown_lock.
C14_SlotChangedUnderLock ==
    [][skb' # skb =>
          \/ xm_pc = "L80" /\ xm_pc' = "L81" /\ shutdown_lock = "xmit"
          \/ wk_pc = "L162" /\ wk_pc' = "L165" /\ shutdown_lock = "work"
          \/ rm_pc = "L302" /\ rm_pc' = "L305" /\ shutdown_lock = "remove"]_vars

\* C15: is_delayed is false right after rpmsg_eth_xmit has stored a frame
\* (line 80), after the handler's retirement (line 165) and after the reclaim
\* of rpmsg_eth_remove; it is true only while the slot holds a frame for
\* which the retry has been scheduled (the handler between lines 162 and 165,
\* in the middle of a retirement, set aside).
C15_RetryFlagReset ==
    /\ xm_pc = "L81" => ~is_delayed
    /\ wk_pc \in {"L168", "L170", "L172"} => ~is_delayed
    /\ rm_pc \in AfterReclaim => ~is_delayed
    /\ (is_delayed /\ wk_pc # "L165") => (skb # NULL /\ retr[skb] >= 1)

\* C16 as stated: no step of the work handler is a netif_wake_queue once
\* is_shutdown is set, and the queue that rpmsg_eth_remove has stopped stays
\* stopped.
C16_QueueStaysStopped ==
    [][/\ is_shutdown => ~work_wake
       /\ (ShutdownPublished /\ queue_stopped) => queue_stopped']_vars

\* C16 amended: no step of the work handler is a netif_wake_queue once
\* is_shutdown is set, after a success and after a drop alike; the queue
\* that rpmsg_eth_remove has stopped is restarted by no step other than
\* rpmsg_eth_open.
C16_NoWakeAfterShutdown ==
    [][/\ is_shutdown => ~work_wake
       /\ (ShutdownPublished /\ queue_stopped /\ ~rpmsg_eth_open)
             => queue_stopped']_vars

\* C16 witness: one frame was sent and the queue woken; the next one was
\* dropped after its retry failed, removal set is_shutdown meanwhile, and
\* the handler is on the branch that leaves the queue stopped.
C16_Witness ==
    /\ wk_pc = "L172"
    /\ is_shutdown /\ queue_stopped
    /\ wk_frame # NULL
    /\ rel[wk_frame] = <<"drop">>
    /\ \E f \in woke : rel[f] = <<"success">>

\* C17: whenever net_xmit_work_handler starts executing (it is at its test
\* of line 119), the slot priv->skb holds a frame.
C17_HandlerFindsFrame == wk_pc = "L119" => skb # NULL

\* C19: a frame that a context is about to access has not been released:
\* the frame whose length rpmsg_eth_xmit reads at line 92, the frame the
\* handler passes to rpmsg_trysend at line 124, and the frame a cleanup or
\* the reclaim is about to consume.
C19_NoAccessAfterRelease ==
    /\ xm_pc = "L91" => rel[xm_skb] = <<>>
    /\ (wk_pc \in {"L124", "L161"} /\ skb # NULL) => rel[skb] = <<>>
    /\ (rm_pc = "L301" /\ skb # NULL) => rel[skb] = <<>>

\* C20 (checked under SpecLive, where removal never begins and the handlers
\* run fairly): after every call of rpmsg_eth_xmit, which stops the queue at
\* line 75, the frame is eventually retired and the queue running again,
\* whatever rpmsg_trysend returns.
C20_QueueEventuallyWoken ==
    (xm_pc = "L78") ~> (~queue_stopped /\ skb = NULL)

\* C20 witness: a frame whose first send and whose retry both failed has
\* been dropped and the handler has woken the queue.
C20_Witness ==
    /\ ~queue_stopped /\ skb = NULL
    /\ \E f \in woke :
          /\ Len(att[f]) = 2
          /\ Failed(att[f][1]) /\ Failed(att[f][2])
          /\ rel[f] = <<"drop">>

---------------------------------------------------------------------------
\* Further properties of bring-up and of the receive callbacks (checked under
\* SpecLink).

\* C12: with a transport payload of 496 bytes both ends set the same MTU,
\* 496 - 12 - 2 = 482: netdev->mtu once rpmsg_eth_probe is past line 240,
\* netif->mtu once rpmsg_eth_init is past line 76.
C12_SameMtuBothEnds ==
    /\ RPMSG_SIZE = 496
    /\ pb_pc \in {"L261", "L269", "done"} => netdev_mtu = 482
    /\ (in_pc = "L90" \/ (in_pc = "done" /\ mailboxif # "none"))
          => netif_mtu = 482

\* C12 witness: both ends are up, rpmsg_eth_probe returned 0 and
\* rpmsg_eth_init returned ERR_OK, and each has set its MTU.
C12_Witness ==
    /\ pb_pc = "done" /\ pb_ret = "0" /\ netdev = "registered"
    /\ in_pc = "done" /\ in_ret = "ERR_OK"
    /\ netdev_mtu = netif_mtu
    /\ netif_mtu = 482

\* C18: every buffer allocated by rpmsg_endpoint_cb ends in exactly one way:
\* kept by the stack after a successful input and never freed by the
\* callback, or freed by the callback exactly once; a buffer is held by the
\* callback only while the callback runs with it, and only frames of type IP
\* or ARP reach the call of input.
C18_BufferHasOneFate ==
    /\ \A b \in Pbufs :
          /\ pbuf_frees[b] <= 1
          /\ pbuf[b] = "stack" => pbuf_frees[b] = 0
          /\ pbuf[b] = "released" => pbuf_frees[b] = 1
          /\ pbuf[b] \in {"free", "held"} => pbuf_frees[b] = 0
          /\ pbuf[b] = "held" => (cb_pc # "idle" /\ cb_p = b)
    /\ cb_pc = "L131" => cb_type \in {"ETHTYPE_IP", "ETHTYPE_ARP"}
    /\ cb_pc = "L138" => cb_type \notin {"ETHTYPE_IP", "ETHTYPE_ARP"}

\* C18 witness: the callback has returned twice; one buffer was kept by the
\* stack, the other one was freed by the callback.
C18_Witness ==
    /\ cb_pc = "idle"
    /\ \E b, c \in Pbufs :
          /\ pbuf[b] = "stack" /\ pbuf_frees[b] = 0
          /\ pbuf[c] = "released" /\ pbuf_frees[c] = 1

=============================================================================
